---- MODULE Spec2Model ----
(***************************************************************************)
(* MergeAdjacentBarriers (qiskit/transpiler/passes/                        *)
(* merge_adjacent_barriers.py): a transformation pass over a DAGCircuit.   *)
(*                                                                         *)
(* The circuit builder appends operations to a DAGCircuit; the pass is     *)
(* then run on it, and may be re-applied to its own result.  DAGCircuit    *)
(* itself is not part of the sources at hand: its operations               *)
(* (apply_operation_back, topological_op_nodes, ancestors, descendants)    *)
(* follow the description of the graph store, the topological iterator and *)
(* the reachability oracle.  run and _collect_potential_merges are         *)
(* translated statement by statement.                                      *)
(***************************************************************************)
EXTENDS Integers, Sequences, FiniteSets, TLC

(* ---------------------------- bounds ---------------------------------- *)
NumQubits == 3
NumClbits == 1
MaxNodes == 4
MaxBarriers == 3
MaxOps == 2
MaxCalls == 3

(* --------------------------- registers -------------------------------- *)
\* A register is <<name, size>>; a bit is <<register name, index>>.
QReg == <<"q", NumQubits>>
CReg == <<"c", NumClbits>>

Qubits == {<<QReg[1], i>> : i \in 0..(QReg[2] - 1)}
Clbits == {<<CReg[1], i>> : i \in 0..(CReg[2] - 1)}

Range(s) == {s[i] : i \in DOMAIN s}

Reverse(s) == [i \in 1..Len(s) |-> s[Len(s) + 1 - i]]

Min(S) == CHOOSE x \in S : \A y \in S : x <= y

\* None, as the value of node.condition
NoCondition == <<>>

(* ----------------------------- DAGNode -------------------------------- *)
\* name, qargs (ordered), cargs (ordered), condition ((register, value) or None)
DAGNode(name, qargs, cargs, condition) ==
    [name |-> name, qargs |-> qargs, cargs |-> cargs, condition |-> condition]

\* the classical bits a condition reads: every bit of its register
BitsInCondition(condition) ==
    IF condition = NoCondition THEN {}
    ELSE {<<condition[1][1], i>> : i \in 0..(condition[1][2] - 1)}

\* the wires a node lies on
NodeBits(nd) == Range(nd.qargs) \cup Range(nd.cargs) \cup BitsInCondition(nd.condition)

(* ---------------------------- DAGCircuit ------------------------------ *)
\* ref is the identity of the DAGCircuit object; nodes are kept in append
\* order and a node's handle is its index in nodes.
DAGCircuit(ref) == [ref |-> ref, qregs |-> <<>>, cregs |-> <<>>, nodes |-> <<>>]

add_qreg(g, qreg) == [g EXCEPT !.qregs = Append(@, qreg)]

add_creg(g, creg) == [g EXCEPT !.cregs = Append(@, creg)]

\* the new node becomes the last node of the wire of each of its bits
apply_operation_back(g, name, qargs, cargs, condition) ==
    [g EXCEPT !.nodes = Append(@, DAGNode(name, qargs, cargs, condition))]

NodeIds(g) == 1..Len(g.nodes)

\* the chain of nodes on the wire of bit b
Wire(g, b) ==
    SelectSeq([i \in NodeIds(g) |-> i], LAMBDA i : b \in NodeBits(g.nodes[i]))

\* wire edges: n -> m when m directly follows n on some wire
Successors(g, n) ==
    {m \in (n + 1)..Len(g.nodes) :
        \E b \in NodeBits(g.nodes[n]) \cap NodeBits(g.nodes[m]) :
            \A j \in (n + 1)..(m - 1) : b \notin NodeBits(g.nodes[j])}

Predecessors(g, n) ==
    {m \in 1..(n - 1) :
        \E b \in NodeBits(g.nodes[n]) \cap NodeBits(g.nodes[m]) :
            \A j \in (m + 1)..(n - 1) : b \notin NodeBits(g.nodes[j])}

RECURSIVE descendants(_, _)
descendants(g, n) ==
    LET S == Successors(g, n)
    IN  S \cup UNION {descendants(g, m) : m \in S}

RECURSIVE ancestors(_, _)
ancestors(g, n) ==
    LET P == Predecessors(g, n)
    IN  P \cup UNION {ancestors(g, m) : m \in P}

\* topological_op_nodes: a linearization consistent with every wire; among
\* the nodes whose predecessors are all listed, the one appended first is next
RECURSIVE TopologicalFrom(_, _)
TopologicalFrom(g, done) ==
    LET ready == {n \in NodeIds(g) \ Range(done) : Predecessors(g, n) \subseteq Range(done)}
    IN  IF ready = {} THEN done
        ELSE TopologicalFrom(g, Append(done, Min(ready)))

topological_op_nodes(g) == TopologicalFrom(g, <<>>)

(* ------------------- _collect_potential_merges ------------------------ *)
\* set(node.qargs)
QargSet(g, n) == Range(g.nodes[n].qargs)

\* the locals of the loop before its first iteration
ScanInit(g, barriers) ==
    [node_to_barrier_qubits |-> <<>>,
     end_of_barrier        |-> barriers[1],
     current_barrier_nodes |-> <<barriers[1]>>,
     current_qubits        |-> QargSet(g, barriers[1]),
     current_ancestors     |-> ancestors(g, barriers[1]),
     current_descendants   |-> descendants(g, barriers[1])]

next_ancestors(g, s, next_barrier) ==
    {nd \in ancestors(g, next_barrier) : nd \notin Range(s.current_barrier_nodes)}

next_descendants(g, s, next_barrier) ==
    {nd \in descendants(g, next_barrier) : nd \notin Range(s.current_barrier_nodes)}

\* the condition of the if statement without its test on the qubits
CanMerge_NoOverlap(g, s, next_barrier) ==
    /\ s.current_ancestors \cap next_descendants(g, s, next_barrier) = {}
    /\ s.current_descendants \cap next_ancestors(g, s, next_barrier) = {}

\* the condition of the if statement without its test on the descendants
CanMerge_NoDescendants(g, s, next_barrier) ==
    /\ s.current_qubits \cap QargSet(g, next_barrier) # {}
    /\ s.current_ancestors \cap next_descendants(g, s, next_barrier) = {}

\* the condition of the if statement
CanMerge(g, s, next_barrier) ==
    /\ s.current_qubits \cap QargSet(g, next_barrier) # {}
    /\ s.current_ancestors \cap next_descendants(g, s, next_barrier) = {}
    /\ s.current_descendants \cap next_ancestors(g, s, next_barrier) = {}

\* the entry stored under the first member of the group instead of the last
StoreBarrier_First(s) ==
    (s.current_barrier_nodes[1] :> s.current_qubits) @@ s.node_to_barrier_qubits

\* node_to_barrier_qubits[end_of_barrier] = current_qubits
\* (barrier_to_add is an Instruction object, always true)
StoreBarrier(s) ==
    (s.end_of_barrier :> s.current_qubits) @@ s.node_to_barrier_qubits

\* one iteration of the for loop, the if branch keeping the qubits of the
\* absorbed barrier only
ScanStep_LastQubits(g, s, next_barrier) ==
    IF CanMerge(g, s, next_barrier)
    THEN [node_to_barrier_qubits |-> s.node_to_barrier_qubits,
          end_of_barrier        |-> next_barrier,
          current_barrier_nodes |-> Append(s.current_barrier_nodes, next_barrier),
          current_qubits        |-> QargSet(g, next_barrier),
          current_ancestors     |-> s.current_ancestors \cup next_ancestors(g, s, next_barrier),
          current_descendants   |-> s.current_descendants
                                        \cup next_descendants(g, s, next_barrier)]
    ELSE [node_to_barrier_qubits |-> StoreBarrier(s),
          end_of_barrier        |-> next_barrier,
          current_barrier_nodes |-> <<next_barrier>>,
          current_qubits        |-> QargSet(g, next_barrier),
          current_ancestors     |-> ancestors(g, next_barrier),
          current_descendants   |-> descendants(g, next_barrier)]

\* one iteration of the for loop, the else branch not storing the barrier made so far
ScanStep_NoStore(g, s, next_barrier) ==
    IF CanMerge(g, s, next_barrier)
    THEN [node_to_barrier_qubits |-> s.node_to_barrier_qubits,
          end_of_barrier        |-> next_barrier,
          current_barrier_nodes |-> Append(s.current_barrier_nodes, next_barrier),
          current_qubits        |-> s.current_qubits \cup QargSet(g, next_barrier),
          current_ancestors     |-> s.current_ancestors \cup next_ancestors(g, s, next_barrier),
          current_descendants   |-> s.current_descendants
                                        \cup next_descendants(g, s, next_barrier)]
    ELSE [node_to_barrier_qubits |-> s.node_to_barrier_qubits,
          end_of_barrier        |-> next_barrier,
          current_barrier_nodes |-> <<next_barrier>>,
          current_qubits        |-> QargSet(g, next_barrier),
          current_ancestors     |-> ancestors(g, next_barrier),
          current_descendants   |-> descendants(g, next_barrier)]

\* one iteration of the for loop
ScanStep(g, s, next_barrier) ==
    IF CanMerge(g, s, next_barrier)
    THEN [node_to_barrier_qubits |-> s.node_to_barrier_qubits,
          end_of_barrier        |-> next_barrier,
          current_barrier_nodes |-> Append(s.current_barrier_nodes, next_barrier),
          current_qubits        |-> s.current_qubits \cup QargSet(g, next_barrier),
          current_ancestors     |-> s.current_ancestors \cup next_ancestors(g, s, next_barrier),
          current_descendants   |-> s.current_descendants
                                        \cup next_descendants(g, s, next_barrier)]
    ELSE [node_to_barrier_qubits |-> StoreBarrier(s),
          end_of_barrier        |-> next_barrier,
          current_barrier_nodes |-> <<next_barrier>>,
          current_qubits        |-> QargSet(g, next_barrier),
          current_ancestors     |-> ancestors(g, next_barrier),
          current_descendants   |-> descendants(g, next_barrier)]

\* the locals after the iteration for barriers[k]   (k >= 1; k = 1: before the loop)
RECURSIVE Scan(_, _, _)
Scan(g, barriers, k) ==
    IF k = 1 THEN ScanInit(g, barriers)
    ELSE ScanStep(g, Scan(g, barriers, k - 1), barriers[k])

\* fewer than this many barriers cannot merge
MinBarriers == 2

\* the early return taken for an empty list of barriers only
collect_potential_merges_OneBarrier(g, barriers) ==
    IF Len(barriers) < MinBarriers - 1
    THEN [none |-> TRUE, dict |-> <<>>]
    ELSE [none |-> FALSE, dict |-> StoreBarrier(Scan(g, barriers, Len(barriers)))]

\* the result: [none |-> TRUE] for None, else the dict in field dict
collect_potential_merges(g, barriers) ==
    IF Len(barriers) < MinBarriers
    THEN [none |-> TRUE, dict |-> <<>>]
    ELSE [none |-> FALSE, dict |-> StoreBarrier(Scan(g, barriers, Len(barriers)))]

(* -------------------------------- run --------------------------------- *)
\* list(qubits): the elements of the set in the iteration order of the set,
\* given as a sequence order that lists every qubit once
ListOfSet(S, order) == SelectSeq(order, LAMBDA q : q \in S)

Barriers(g) ==
    SelectSeq(topological_op_nodes(g), LAMBDA n : g.nodes[n].name = "barrier")

\* the body of the loop, a barrier that is no key of the dict appended as it is
AddNode_KeepAbsorbed(new_dag, g, n, node_to_barrier_qubits, order) ==
    LET node == g.nodes[n]
    IN  IF node.name = "barrier"
        THEN IF n \in DOMAIN node_to_barrier_qubits
             THEN apply_operation_back(new_dag, "barrier",
                      ListOfSet(node_to_barrier_qubits[n], order), <<>>, NoCondition)
             ELSE apply_operation_back(new_dag, "barrier", node.qargs, <<>>, NoCondition)
        ELSE apply_operation_back(new_dag, node.name, node.qargs, node.cargs, node.condition)

\* the body of the loop, the condition of a conditional node not copied
AddNode_NoCondition(new_dag, g, n, node_to_barrier_qubits, order) ==
    LET node == g.nodes[n]
    IN  IF node.name = "barrier"
        THEN IF n \in DOMAIN node_to_barrier_qubits
             THEN apply_operation_back(new_dag, "barrier",
                      ListOfSet(node_to_barrier_qubits[n], order), <<>>, NoCondition)
             ELSE new_dag
        ELSE apply_operation_back(new_dag, node.name, node.qargs, node.cargs, NoCondition)

\* the body of the loop over dag.topological_op_nodes()
AddNode(new_dag, g, n, node_to_barrier_qubits, order) ==
    LET node == g.nodes[n]
    IN  IF node.name = "barrier"
        THEN IF n \in DOMAIN node_to_barrier_qubits
             THEN apply_operation_back(new_dag, "barrier",
                      ListOfSet(node_to_barrier_qubits[n], order), <<>>, NoCondition)
             ELSE new_dag
        ELSE IF node.condition # NoCondition
             THEN apply_operation_back(new_dag, node.name, node.qargs, node.cargs,
                                       node.condition)
             ELSE apply_operation_back(new_dag, node.name, node.qargs, node.cargs,
                                       NoCondition)

RECURSIVE AddNodes(_, _, _, _, _, _)
AddNodes(new_dag, g, todo, k, node_to_barrier_qubits, order) ==
    IF k > Len(todo) THEN new_dag
    ELSE AddNodes(AddNode(new_dag, g, todo[k], node_to_barrier_qubits, order),
                  g, todo, k + 1, node_to_barrier_qubits, order)

RECURSIVE AddRegs(_, _, _, _)
AddRegs(new_dag, regs, k, quantum) ==
    IF k > Len(regs) THEN new_dag
    ELSE AddRegs(IF quantum THEN add_qreg(new_dag, regs[k]) ELSE add_creg(new_dag, regs[k]),
                 regs, k + 1, quantum)

\* run(dag) walking the nodes of dag from the last to the first
run_Backwards(dag, order, new_ref) ==
    LET merges == collect_potential_merges(dag, Barriers(dag))
    IN  IF merges.none \/ DOMAIN merges.dict = {}
        THEN dag
        ELSE AddNodes(AddRegs(AddRegs(DAGCircuit(new_ref), dag.qregs, 1, TRUE),
                              dag.cregs, 1, FALSE),
                      dag, Reverse(topological_op_nodes(dag)), 1, merges.dict, order)

\* run(dag); new_ref is the identity a DAGCircuit() built by this call gets
run(dag, order, new_ref) ==
    LET merges == collect_potential_merges(dag, Barriers(dag))
    IN  IF merges.none \/ DOMAIN merges.dict = {}
        THEN dag
        ELSE AddNodes(AddRegs(AddRegs(DAGCircuit(new_ref), dag.qregs, 1, TRUE),
                              dag.cregs, 1, FALSE),
                      dag, topological_op_nodes(dag), 1, merges.dict, order)

\* the graph dag after run(dag), with the barriers and the copies appended to
\* dag itself instead of new_dag
input_after_run_Appended(dag, order, new_ref) ==
    LET merges == collect_potential_merges(dag, Barriers(dag))
    IN  IF merges.none \/ DOMAIN merges.dict = {}
        THEN dag
        ELSE AddNodes(dag, dag, topological_op_nodes(dag), 1, merges.dict, order)

\* the graph dag after run(dag): run only reads dag (topological_op_nodes,
\* ancestors, descendants, qregs, cregs, the fields of its nodes); every
\* add_qreg, add_creg and apply_operation_back is on new_dag
input_after_run(dag, order, new_ref) == dag

(* --------------------------- the inputs ------------------------------- *)
QubitIndex(q) == q[2]

RECURSIVE SortedSeq(_)
SortedSeq(S) ==
    IF S = {} THEN <<>>
    ELSE LET q == CHOOSE x \in S : \A y \in S : QubitIndex(x) <= QubitIndex(y)
         IN  <<q>> \o SortedSeq(S \ {q})

\* list(qubits) follows the iteration order of a Python set, which the code
\* does not fix: every run takes one of these two orders (ascending and
\* descending qubit index), so no property may rest on the order
HashOrders == {SortedSeq(Qubits), Reverse(SortedSeq(Qubits))}

\* the non-barrier operations the circuit builder appends
OpMenu ==
    {DAGNode("h", <<q>>, <<>>, NoCondition) : q \in Qubits}
    \cup {DAGNode("cx", <<<<"q", 1>>, <<"q", 0>>>>, <<>>, NoCondition)}
    \cup {DAGNode("measure", <<<<"q", 0>>>>, <<c>>, NoCondition) : c \in Clbits}
    \cup {DAGNode("x", <<<<"q", 0>>>>, <<>>, <<CReg, 1>>)}

NumBarriers(g) == Cardinality({n \in NodeIds(g) : g.nodes[n].name = "barrier"})
NumOps(g) == Cardinality({n \in NodeIds(g) : g.nodes[n].name # "barrier"})

(* ------------------------- the state machine -------------------------- *)
VARIABLES dag,    \* the circuit the builder made
          arg,    \* the graph handed to the latest call of run
          ret,    \* the graph the latest call of run returned
          calls,  \* number of calls of run so far
          nrefs   \* number of DAGCircuit objects constructed so far

vars == <<dag, arg, ret, calls, nrefs>>

Init ==
    /\ dag = add_creg(add_qreg(DAGCircuit(1), QReg), CReg)
    /\ arg = dag
    /\ ret = dag
    /\ calls = 0
    /\ nrefs = 1

\* circuit.barrier(...)
ApplyBarrier ==
    /\ calls = 0
    /\ Len(dag.nodes) < MaxNodes
    /\ NumBarriers(dag) < MaxBarriers
    /\ \E S \in (SUBSET Qubits) \ {{}} :
          dag' = apply_operation_back(dag, "barrier", SortedSeq(S), <<>>, NoCondition)
    /\ arg' = dag'
    /\ ret' = dag'
    /\ UNCHANGED <<calls, nrefs>>

\* any other instruction of the circuit
ApplyOperation ==
    /\ calls = 0
    /\ Len(dag.nodes) < MaxNodes
    /\ NumOps(dag) < MaxOps
    /\ \E op \in OpMenu :
          dag' = apply_operation_back(dag, op.name, op.qargs, op.cargs, op.condition)
    /\ arg' = dag'
    /\ ret' = dag'
    /\ UNCHANGED <<calls, nrefs>>

\* the pass is run on the circuit; dag is the object the call was given, so
\* it shows whatever the call did to its input
Run ==
    /\ calls = 0
    /\ \E order \in HashOrders :
          \E out \in {run(dag, order, nrefs + 1)},
             inp \in {input_after_run(dag, order, nrefs + 1)} :
              /\ ret' = IF out.ref = dag.ref THEN inp ELSE out
              /\ nrefs' = IF out.ref = dag.ref THEN nrefs ELSE nrefs + 1
              /\ arg' = inp
              /\ dag' = inp
    /\ calls' = 1

\* the pass is re-applied to its own result
Rerun ==
    /\ calls >= 1
    /\ calls < MaxCalls
    /\ \E order \in HashOrders :
          \E out \in {run(ret, order, nrefs + 1)},
             inp \in {input_after_run(ret, order, nrefs + 1)} :
              /\ ret' = IF out.ref = ret.ref THEN inp ELSE out
              /\ nrefs' = IF out.ref = ret.ref THEN nrefs ELSE nrefs + 1
              /\ arg' = inp
              /\ dag' = IF ret.ref = dag.ref THEN inp ELSE dag
    /\ calls' = calls + 1

Next == ApplyBarrier \/ ApplyOperation \/ Run \/ Rerun

Spec == Init /\ [][Next]_vars

(* ------------------- vocabulary of the properties --------------------- *)
IsBarrier(g, n) == g.nodes[n].name = "barrier"

\* handles of the non-barrier nodes of g, in append order
OpIds(g) == SelectSeq([i \in NodeIds(g) |-> i], LAMBDA n : ~IsBarrier(g, n))

\* handles of the barrier nodes of g, in append order
BarrierIds(g) == SelectSeq([i \in NodeIds(g) |-> i], LAMBDA n : IsBarrier(g, n))

\* position of x in the sequence s (x occurs once in s)
IndexIn(s, x) == CHOOSE k \in DOMAIN s : s[k] = x

\* run copies the non-barrier nodes in order: the k-th non-barrier node of
\* the result is the copy of the k-th non-barrier node of the input
CopyOf(x) == OpIds(ret)[IndexIn(OpIds(arg), x)]

\* a precedes b on the wire of bit r
PrecedesOn(g, r, a, b) ==
    LET w == Wire(g, r)
    IN  \E i, j \in DOMAIN w : i < j /\ w[i] = a /\ w[j] = b

Called == calls >= 1

\* C1: whenever a non-barrier node X and a barrier M lie on the wire of a
\* qubit r of the input, X is on the same side of some barrier covering r
\* in the output: before one if it was before M, after one if it was after M.
C1_BoundaryKept ==
    Called =>
        \A r \in Qubits :
            \A X \in Range(OpIds(arg)), M \in Range(BarrierIds(arg)) :
                /\ PrecedesOn(arg, r, X, M) =>
                       \E M2 \in Range(BarrierIds(ret)) : PrecedesOn(ret, r, CopyOf(X), M2)
                /\ PrecedesOn(arg, r, M, X) =>
                       \E M2 \in Range(BarrierIds(ret)) : PrecedesOn(ret, r, M2, CopyOf(X))

\* C2: an ordering between two non-barrier nodes of the output is an
\* ordering between them in the input.
C2_NoNewOrdering ==
    Called =>
        \A X, Y \in Range(OpIds(arg)) :
            CopyOf(X) \in ancestors(ret, CopyOf(Y)) => X \in ancestors(arg, Y)

(* ------------------------- groups of the scan ------------------------- *)
\* positions k of Barriers(g) whose barrier the loop took into the current
\* group (the if branch)
AbsorbedSet(g) ==
    LET B == Barriers(g)
    IN  {k \in 2..Len(B) : Len(Scan(g, B, k).current_barrier_nodes) > 1}

\* with A the absorbed positions and n the number of barriers: positions of
\* the first and the last member of the group of the k-th barrier
FirstOfGroup(A, k) == CHOOSE j \in 1..k : j \notin A /\ \A i \in (j + 1)..k : i \in A

LastOfGroup(A, n, k) ==
    CHOOSE j \in k..n : (\A i \in (k + 1)..j : i \in A) /\ (j = n \/ (j + 1) \notin A)

GroupSize(A, n, k) == LastOfGroup(A, n, k) - FirstOfGroup(A, k) + 1

\* groups are numbered in the order the loop closes them
GroupIndex(A, k) == Cardinality({j \in 1..k : j \notin A})

\* the run built a new graph from arg
Rebuilt == Called /\ ret.ref # arg.ref

\* number of non-barrier nodes appended before node n
OpsBefore(g, n) == Cardinality({x \in Range(OpIds(g)) : x < n})

\* non-barrier nodes that are descendants of node i and ancestors of node j
OpsBetween(g, i, j) ==
    {x \in Range(OpIds(g)) : x \in descendants(g, i) /\ x \in ancestors(g, j)}

\* C3: two barriers of the input with a non-barrier node that is a
\* descendant of the first and an ancestor of the second are never put in
\* the same group; when each is alone in its group, both are in the output
\* with their own qubit sets, and the node is still between them on every
\* wire the three share.
C3_SeparatedStayApart ==
    Rebuilt =>
        LET B == Barriers(arg)
            A == AbsorbedSet(arg)
            n == Len(B)
            OB == BarrierIds(ret)
        IN  \A i, j \in DOMAIN B :
                (i < j /\ OpsBetween(arg, B[i], B[j]) # {}) =>
                    /\ GroupIndex(A, i) # GroupIndex(A, j)
                    /\ Len(OB) >= GroupIndex(A, j)
                    /\ (GroupSize(A, n, i) = 1 /\ GroupSize(A, n, j) = 1) =>
                          LET oi == OB[GroupIndex(A, i)]
                              oj == OB[GroupIndex(A, j)]
                          IN  /\ QargSet(ret, oi) = QargSet(arg, B[i])
                              /\ QargSet(ret, oj) = QargSet(arg, B[j])
                              /\ \A X \in OpsBetween(arg, B[i], B[j]), r \in Qubits :
                                    (PrecedesOn(arg, r, B[i], X) /\ PrecedesOn(arg, r, X, B[j]))
                                    => /\ PrecedesOn(ret, r, oi, CopyOf(X))
                                       /\ PrecedesOn(ret, r, CopyOf(X), oj)

\* a run on barrier; op; barrier along one wire, each barrier alone in its group
C3_Witness ==
    /\ Rebuilt
    /\ LET B == Barriers(arg)
           A == AbsorbedSet(arg)
           n == Len(B)
       IN  \E i, j \in DOMAIN B :
              /\ i < j
              /\ GroupSize(A, n, i) = 1 /\ GroupSize(A, n, j) = 1
              /\ \E X \in OpsBetween(arg, B[i], B[j]), r \in Qubits :
                    PrecedesOn(arg, r, B[i], X) /\ PrecedesOn(arg, r, X, B[j])

PairwiseDisjoint(g, B) ==
    \A i, j \in DOMAIN B : i # j => QargSet(g, B[i]) \cap QargSet(g, B[j]) = {}

\* C4: a barrier is absorbed only when its qubits meet the qubits of the
\* members its group already has; when the barriers of the input are
\* pairwise disjoint the output has one barrier per input barrier, in
\* order, over the same qubits.
C4_AbsorbOnlyOverlapping ==
    Rebuilt =>
        LET B == Barriers(arg)
            A == AbsorbedSet(arg)
            OB == BarrierIds(ret)
        IN  /\ \A k \in A :
                  QargSet(arg, B[k])
                      \cap UNION {QargSet(arg, B[j]) : j \in FirstOfGroup(A, k)..(k - 1)} # {}
            /\ PairwiseDisjoint(arg, B) =>
                  /\ Len(OB) = Len(B)
                  /\ \A k \in DOMAIN B : QargSet(ret, OB[k]) = QargSet(arg, B[k])

\* a run whose scan absorbed one barrier and refused another
C4_Witness ==
    /\ Rebuilt
    /\ LET A == AbsorbedSet(arg)
       IN  A # {} /\ (2..Len(Barriers(arg))) \ A # {}

\* C5 as stated: two barriers consecutive in the barrier sequence that
\* share a qubit and have no node between them (descendant of the first,
\* ancestor of the second) are replaced by exactly one barrier over the
\* union of their qubits, appended where the second was.
C5_ConsecutiveMerged ==
    Rebuilt =>
        LET B == Barriers(arg)
            A == AbsorbedSet(arg)
            n == Len(B)
            OB == BarrierIds(ret)
        IN  \A k \in 1..(n - 1) :
                (/\ QargSet(arg, B[k]) \cap QargSet(arg, B[k + 1]) # {}
                 /\ descendants(arg, B[k]) \cap ancestors(arg, B[k + 1]) = {})
                => /\ (k + 1) \in A
                   /\ Len(OB) = n - Cardinality(A)
                   /\ LET o == OB[GroupIndex(A, k + 1)]
                      IN  /\ QargSet(ret, o) = QargSet(arg, B[k]) \cup QargSet(arg, B[k + 1])
                          /\ OpsBefore(ret, o) = OpsBefore(arg, B[k + 1])

\* C5, amended: when the first of the two barriers opens its group (it was
\* not absorbed itself), the second is absorbed; the group is replaced by
\* exactly one barrier over the union of its members' qubits, appended where
\* the last member of the group was.  With no third barrier absorbed that
\* is the union of the two, at the position of the second.
C5_OpenerAbsorbsNext ==
    Rebuilt =>
        LET B == Barriers(arg)
            A == AbsorbedSet(arg)
            n == Len(B)
            OB == BarrierIds(ret)
        IN  \A k \in 1..(n - 1) :
                (/\ k \notin A
                 /\ QargSet(arg, B[k]) \cap QargSet(arg, B[k + 1]) # {}
                 /\ descendants(arg, B[k]) \cap ancestors(arg, B[k + 1]) = {})
                => /\ (k + 1) \in A
                   /\ Len(OB) = n - Cardinality(A)
                   /\ LET o == OB[GroupIndex(A, k)]
                          last == LastOfGroup(A, n, k)
                      IN  /\ QargSet(ret, o) = UNION {QargSet(arg, B[j]) : j \in k..last}
                          /\ OpsBefore(ret, o) = OpsBefore(arg, B[last])

\* a run that merged two barriers with an operation on an unrelated qubit
\* appended between them
C5_Witness ==
    /\ Rebuilt
    /\ LET B == Barriers(arg)
           A == AbsorbedSet(arg)
       IN  \E k \in 1..(Len(B) - 1) :
              /\ k \notin A
              /\ (k + 1) \in A
              /\ LastOfGroup(A, Len(B), k) = k + 1
              /\ \E X \in Range(OpIds(arg)) :
                    /\ B[k] < X /\ X < B[k + 1]
                    /\ NodeBits(arg.nodes[X])
                           \cap (QargSet(arg, B[k]) \cup QargSet(arg, B[k + 1])) = {}

\* C6: a call of run on a graph with fewer than two barriers returns the
\* graph it was given, the same object, and constructs no DAGCircuit.
C6_FewBarriersSameGraph ==
    (Called /\ Len(BarrierIds(arg)) < 2) =>
        /\ ret = arg
        /\ ret.ref = arg.ref
        /\ nrefs = arg.ref

\* a run on a graph with one barrier and some operation
C6_Witness ==
    /\ Called
    /\ Len(BarrierIds(arg)) = 1
    /\ Len(OpIds(arg)) >= 1

\* number of nodes of g equal to nd
CountOf(g, nd) == Cardinality({n \in NodeIds(g) : g.nodes[n] = nd})

\* C7: the output has exactly the non-barrier nodes of the input, each with
\* its operation, qargs, cargs and condition, and the registers of the input.
C7_OpsAndRegistersKept ==
    Called =>
        /\ Range(ret.qregs) = Range(arg.qregs)
        /\ Range(ret.cregs) = Range(arg.cregs)
        /\ Len(OpIds(ret)) = Len(OpIds(arg))
        /\ \A nd \in Range(arg.nodes) \cup Range(ret.nodes) :
              nd.name # "barrier" => CountOf(ret, nd) = CountOf(arg, nd)

\* a run that rebuilt a graph holding a conditional operation and one with a clbit
C7_Witness ==
    /\ Rebuilt
    /\ \E X \in Range(OpIds(arg)) : arg.nodes[X].condition # NoCondition
    /\ \E X \in Range(OpIds(arg)) : arg.nodes[X].cargs # <<>>

\* the non-barrier nodes along the wire of b: which non-barrier node of the
\* graph (counted in append order) and what it is
OpWire(g, b) ==
    LET w == SelectSeq(Wire(g, b), LAMBDA n : ~IsBarrier(g, n))
    IN  [i \in DOMAIN w |-> <<IndexIn(OpIds(g), w[i]), g.nodes[w[i]]>>]

\* C8: on the wire of every qubit and clbit the non-barrier nodes of the
\* output are those of the input, in the same order.
C8_OpWiresKept ==
    Called => \A b \in Qubits \cup Clbits : OpWire(ret, b) = OpWire(arg, b)

\* a run that merged barriers in a graph with two operations on one wire
C8_Witness ==
    /\ Rebuilt
    /\ AbsorbedSet(arg) # {}
    /\ \E b \in Qubits \cup Clbits : Len(OpWire(arg, b)) >= 2

\* a node up to the order in which a barrier lists its qubits
Shape(nd) ==
    IF nd.name = "barrier" THEN [nd EXCEPT !.qargs = SortedSeq(Range(nd.qargs))] ELSE nd

\* the same registers and, position by position, the same nodes
StructEq(g, h) ==
    /\ g.qregs = h.qregs
    /\ g.cregs = h.cregs
    /\ Len(g.nodes) = Len(h.nodes)
    /\ \A i \in DOMAIN g.nodes : Shape(g.nodes[i]) = Shape(h.nodes[i])

\* C9: when the input has two barriers or more and the scan absorbs none,
\* the output has the nodes of the input position by position, a barrier over
\* the same qubits for each barrier, and so the same nodes on every wire.
C9_NoAbsorbNoChange ==
    (Called /\ Len(BarrierIds(arg)) >= 2 /\ AbsorbedSet(arg) = {}) =>
        /\ StructEq(ret, arg)
        /\ \A b \in Qubits \cup Clbits : Wire(ret, b) = Wire(arg, b)

\* a run that absorbed nothing and rebuilt a barrier with its qubits listed
\* in another order
C9_Witness ==
    /\ Rebuilt
    /\ Len(BarrierIds(arg)) >= 2
    /\ AbsorbedSet(arg) = {}
    /\ Len(OpIds(arg)) >= 1
    /\ \E i \in DOMAIN arg.nodes : i \in DOMAIN ret.nodes /\ ret.nodes[i] # arg.nodes[i]

\* the circuit of the module docstring: barrier(qr[0]); barrier(qr[1]); barrier(qr)
DocNodes ==
    << DAGNode("barrier", <<<<"q", 0>>>>, <<>>, NoCondition),
       DAGNode("barrier", <<<<"q", 1>>>>, <<>>, NoCondition),
       DAGNode("barrier", SortedSeq(Qubits), <<>>, NoCondition) >>

Shapes(g) == [i \in DOMAIN g.nodes |-> Shape(g.nodes[i])]

\* C10: one call does not reach a fixed point.  On the circuit of the module
\* docstring the first call returns barrier(q0); barrier(q) and a second
\* call, on that result, returns the single barrier(q), which differs from
\* what it was given.
C10_SecondCallMergesAgain ==
    /\ (calls = 1 /\ dag.nodes = DocNodes) =>
          Shapes(ret) = <<DocNodes[1], DocNodes[3]>>
    /\ (calls = 2 /\ dag.nodes = DocNodes) =>
          /\ Shapes(arg) = <<DocNodes[1], DocNodes[3]>>
          /\ Shapes(ret) = <<DocNodes[3]>>
          /\ ~StructEq(ret, arg)

\* the second call on the circuit of the module docstring has returned
C10_Witness ==
    /\ calls = 2
    /\ dag.nodes = DocNodes
    /\ ~StructEq(ret, arg)

C12_GroupsPartitionBarriers ==
    (Called /\ Len(BarrierIds(arg)) >= 2) =>
        LET B == Barriers(arg)
            A == AbsorbedSet(arg)
            n == Len(B)
            OB == BarrierIds(ret)
            merges == collect_potential_merges(arg, B)
            closing == {k \in 1..n : LastOfGroup(A, n, k) = k}
        IN  /\ ~merges.none
            /\ DOMAIN merges.dict = {B[k] : k \in closing}
            /\ Cardinality(DOMAIN merges.dict) = n - Cardinality(A)
            /\ \A k \in closing :
                  LET first == FirstOfGroup(A, k)
                  IN  /\ Scan(arg, B, k).current_barrier_nodes
                             = [i \in 1..(k - first + 1) |-> B[first + i - 1]]
                      /\ merges.dict[B[k]] = UNION {QargSet(arg, B[j]) : j \in first..k}
            /\ Len(OB) = n - Cardinality(A)
            /\ \A k \in closing :
                  QargSet(ret, OB[GroupIndex(A, k)]) = merges.dict[B[k]]
            /\ UNION {QargSet(ret, o) : o \in Range(OB)}
                   = UNION {QargSet(arg, b) : b \in Range(B)}

\* a run whose scan made two groups or more, one of them of barriers over
\* different qubit sets
C12_Witness ==
    /\ Rebuilt
    /\ LET B == Barriers(arg)
           A == AbsorbedSet(arg)
       IN  /\ Len(B) - Cardinality(A) >= 2
           /\ \E k \in A : QargSet(arg, B[k]) # QargSet(arg, B[k - 1])

\* C13: the barrier that stands for a group is appended where the last
\* member of the group was; every non-barrier node that precedes a member
\* of the group on a wire of the input is appended before that barrier in
\* the output and precedes it on that wire.
C13_AnchorIsLastMember ==
    Rebuilt =>
        LET B == Barriers(arg)
            A == AbsorbedSet(arg)
            n == Len(B)
            OB == BarrierIds(ret)
        IN  /\ Len(OB) = n - Cardinality(A)
            /\ \A k \in 1..n :
                  LET o == OB[GroupIndex(A, k)]
                  IN  /\ OpsBefore(ret, o) = OpsBefore(arg, B[LastOfGroup(A, n, k)])
                      /\ \A X \in Range(OpIds(arg)), r \in Qubits :
                            PrecedesOn(arg, r, X, B[k]) =>
                                /\ CopyOf(X) < o
                                /\ PrecedesOn(ret, r, CopyOf(X), o)

\* a run that absorbed a barrier which an operation, appended after the
\* first member of the group, precedes on a wire
C13_Witness ==
    /\ Rebuilt
    /\ LET B == Barriers(arg)
           A == AbsorbedSet(arg)
       IN  \E k \in A, X \in Range(OpIds(arg)), r \in Qubits :
              /\ B[FirstOfGroup(A, k)] < X
              /\ PrecedesOn(arg, r, X, B[k])

\* C14: re-applying run to its own result comes to a fixed point.  Every
\* call either returns a graph with the structure and the barrier count of
\* its input, or one with fewer barriers; a circuit with n >= 1 barriers
\* keeps one barrier at least, so at most n - 1 calls change the structure,
\* and the n-th call in a row, at the latest, changes nothing.
C14_RerunReachesFixedPoint ==
    Called =>
        LET n == Len(BarrierIds(dag))
            before == Len(BarrierIds(arg))
            after == Len(BarrierIds(ret))
        IN  /\ \/ StructEq(ret, arg) /\ after = before
               \/ after < before
            /\ after <= before
            /\ before <= n
            /\ n >= 1 => after >= 1
            /\ (n >= 1 /\ calls >= n) => StructEq(ret, arg)

\* the third call on the circuit of the module docstring, after two calls
\* that each removed a barrier, returns what it was given
C14_Witness ==
    /\ calls = 3
    /\ dag.nodes = DocNodes
    /\ Len(BarrierIds(arg)) = 1
    /\ StructEq(ret, arg)

====
